---- MODULE Spec2Model ----
(***************************************************************************)
(* Model of subprocess/subprocess.go: the expect engine                    *)
(* (ExpectExpressionsWithTimeout + readOutput) and the interactive relay   *)
(* (Interact + listenForShutdown + waitForCommandCompletion + copyFrom).   *)
(***************************************************************************)
EXTENDS Integers, Sequences, FiniteSets, TLC

(* ---------------------------- bounds ----------------------------------- *)
MaxTime == 3        \* the clock runs over 0..MaxTime
MaxTimeout == 2     \* timeouts passed by the caller: 0..MaxTimeout
MaxOut == 2         \* bytes the child writes on the pty
MaxReopen == 1      \* times the slave side of the pty is reopened after a close
MaxCopiers == 2     \* io.Copy goroutines alive per copyFrom task
MaxClose == 1       \* calls of Close
MaxSend == 2        \* length of the strings given to Send and SendLine
MaxKinds == 1       \* kinds of calls made on a session whose Start failed

(* ------------------------ program constants ---------------------------- *)
ErrsCap == 1        \* errs := make(chan error, 1)
SignalsCap == 1     \* signals := make(chan os.Signal, 1)

(* --------------------------- data -------------------------------------- *)
Bytes == {"a", "b"}                      \* what the child can print
NoErr == <<>>                            \* a nil error
ErrTimeout == <<"timeout expecting results">>
EIO == <<"EIO">>                         \* a pty read error that is not io.EOF
Wrap(err, msg) == <<msg>> \o err         \* errors.Wrap(err, msg)
Unset == <<"unset">>                     \* no call has returned a value yet
ErrFinished == <<"os: process already finished">>
ErrSpawn == <<"spawn">>                  \* the error of a failed pty.Start
ErrInvalid == <<"invalid argument">>     \* os.ErrInvalid, of a nil *os.File
ErrNotStarted == <<"exec: not started">> \* cmd.Wait without a process
NilDereference == <<"panic", "nil pointer dereference">>
CRLF == <<"\r", "\n">>

\* the strings the caller sends
RECURSIVE Strings(_)
Strings(n) ==
  IF n = 0 THEN {<<>>}
  ELSE Strings(n - 1) \cup
       {Append(v, c) : v \in {w \in Strings(n - 1) : Len(w) = n - 1}, c \in Bytes}
SendValues == Strings(MaxSend)

\* A regular expression is modelled by the literal text it searches for
\* (the empty expression matches the empty string).
ExpressionLists ==
  { <<>>,
    << <<"a">> >>,
    << <<"z">> >>,
    << <<"a">>, <<"b">> >>,
    << <<"a", "b">>, <<"b">> >>,
    << <<"z">>, <<"z", "a">> >>,
    << <<>>, <<"a">> >> }

\* the two copyFrom tasks: pty -> os.Stdout and os.Stdin -> pty
Directions == {"out", "in"}
\* signal.Notify(signals, os.Interrupt, syscall.SIGINT, syscall.SIGWINCH, syscall.SIGTSTP)
\* (os.Interrupt is syscall.SIGINT)
Signals == {"SIGWINCH", "SIGINT", "SIGTSTP"}
Interrupts == {"SIGINT", "SIGTSTP"}

VARIABLES
  \* ---- clock and pty device ----
  now,          \* current time
  ptyAvail,     \* bytes written by the child, not yet read from the master
  slaveOpen,    \* the child side of the pty is open
  reopens,      \* how often the slave side was reopened
  written,      \* history: every byte the child wrote
  \* ---- ExpectExpressionsWithTimeout ----
  pc,           \* "idle" | "select" | "rlocked" | "snapped" | "test" | "done"
  expressions, timeout, start, deadline,
  ctxDone,      \* ctx.Done() of the deadline context is closed
  errs,         \* buffered channel of capacity ErrsCap
  errsClosed,
  output,       \* bytes.Buffer shared with the reader
  index, e,     \* the results
  snapshot,     \* b := output.Bytes() of the last poll tick
  retAt,        \* history: time of return
  polledAfterErr,  \* history: a poll tick ran while an error was waiting in errs
  \* ---- readOutput ----
  readerPc,     \* "none" | "select" | "copy" | "lock" | "write" | "unlock" | "returned"
  temp,         \* bytes.Buffer filled by io.Copy
  readErrAt,    \* history: time the reader hit a read error, -1 if none
  readAt,       \* history: time of the reader's last Read that returned data
  errInTime,    \* history: the read error came while the call was polling,
                \* before the deadline and with no expression matching
  \* ---- Interact ----
  iPc,          \* "idle" | "wait" (in wg.Wait) | "returned"
  ictxDone,     \* the context of context.WithCancel(s.ctx) is cancelled
  signals,      \* buffered channel of capacity SignalsCap
  wg,           \* sync.WaitGroup counter
  listenPc,     \* listenForShutdown: "none" | "run" | "stopped"
  waitPc,       \* waitForCommandCompletion: "none" | "run" | "stopped"
  copyPc,       \* copyFrom, per direction: "none" | "run" | "stopped"
  waiterPc,     \* goroutine around cmd.Wait: "none" | "wait" | "send" | "finished"
  done,         \* the done channel is closed
  copying,      \* per direction: goroutines inside io.Copy
  sending,      \* per direction: goroutines blocked in errs <- err
  cmdState,     \* the child: "unstarted" | "running" | "exit0" | "exitErr"
  intDelivered, \* history: an interrupt signal arrived during Interact
  errsConsumed, \* history: errors received from the shared error channel
  lastSig,      \* history: the signal listenForShutdown received last
  resize,       \* outcome of the last pty.InheritSize: "none" | "ok" | "failed"
  iErr,         \* the error Interact returned
  \* ---- session: Start, Close ----
  ptyHandle,    \* s.pty: "nil" | "valid"
  kills,        \* history: calls of s.command.Process.Kill
  closeCalls,   \* history: calls of Close
  closeErr,     \* the error the last Close returned
  reaped,       \* cmd.Wait has collected the exited child
  \* ---- Start, Send, SendLine ----
  startErr,     \* the error Start returned
  sendArg,      \* the argument of the last Send or SendLine
  lastOp,       \* "none" | "Send" | "SendLine"
  wrote,        \* the bytes the last call wrote to the pty
  sendErr,      \* the error the last Send or SendLine returned
  \* ---- the reader task of an earlier expect call ----
  second,       \* the caller has made a second expect call
  oldReaderPc,  \* the first call's readOutput: as readerPc
  oldTemp,      \* its bytes.Buffer filled by io.Copy
  oldDeadline,  \* the deadline of its context
  oldCtxDone,   \* its context is done
  firstMatched, \* history: the first call returned a match
  retWritten,   \* history: bytes the child had written when the second call began
  lostAfter,    \* history: the first call's reader took a later byte
  \* ---- sync.RWMutex of the call in progress ----
  lockWriter,   \* the lock is held exclusively (Lock)
  lockReaders   \* holders of the shared lock (RLock)

expectVars == <<pc, expressions, timeout, start, deadline, ctxDone, errs,
                errsClosed, output, index, e, snapshot, retAt, polledAfterErr>>
readerVars == <<readerPc, temp, readErrAt, readAt, errInTime>>
ptyVars == <<ptyAvail, slaveOpen, reopens, written>>
sessVars == <<lastSig, resize, iErr, ptyHandle, kills, closeCalls, closeErr,
              reaped>>
interactVars == <<iPc, ictxDone, signals, wg, listenPc, waitPc, copyPc,
                  waiterPc, done, copying, sending, cmdState, intDelivered,
                  errsConsumed, sessVars>>
sendVars == <<startErr, sendArg, lastOp, wrote, sendErr>>
oldVars == <<second, oldReaderPc, oldTemp, oldDeadline, oldCtxDone,
             firstMatched, retWritten, lostAfter>>
lockVars == <<lockWriter, lockReaders>>
vars == <<now, ptyVars, expectVars, readerVars, interactVars, sendVars,
          oldVars, lockVars>>

(* ------------------------- pure functions ------------------------------ *)
\* the expression finds its text somewhere in b
Matches(r, b) ==
  \E i \in 1..(Len(b) + 1) :
     /\ i + Len(r) - 1 <= Len(b)
     /\ SubSeq(b, i, i + Len(r) - 1) = r

\* r.Find(b) != nil.  Find returns a sub-slice of b; output.Bytes() of a buffer
\* that was never written is the nil slice, and every sub-slice of nil is nil.
FindNotNil(r, b) == b # <<>> /\ Matches(r, b)

\* mutant of FirstMatch: the loop does not stop at the first match, the last
\* matching expression wins
LastMatch(exprs, b) ==
  IF \E i \in 1..Len(exprs) : FindNotNil(exprs[i], b)
  THEN (CHOOSE i \in 1..Len(exprs) :
          /\ FindNotNil(exprs[i], b)
          /\ \A j \in (i + 1)..Len(exprs) : ~FindNotNil(exprs[j], b)) - 1
  ELSE -1

\* for i, r := range expressions { if r.Find(b) != nil { index = i; break OUTER } }
\* -1 when no expression matches; indices are 0-based as in the source.
FirstMatch(exprs, b) ==
  IF \E i \in 1..Len(exprs) : FindNotNil(exprs[i], b)
  THEN (CHOOSE i \in 1..Len(exprs) :
          /\ FindNotNil(exprs[i], b)
          /\ \A j \in 1..(i - 1) : ~FindNotNil(exprs[j], b)) - 1
  ELSE -1

\* mutant of DeadlineReached: the timer fires one time unit early
DeadlineReachedEarly == now + 1 >= deadline

\* the timer of context.WithDeadline may fire
DeadlineReached == now >= deadline

(* ------------------------------ Init ----------------------------------- *)
\* NewSubProcess: the fields of the session and the state of the calls not
\* yet made, whatever Start does
Fresh ==
  /\ now = 0
  /\ ptyAvail = <<>> /\ slaveOpen = TRUE /\ reopens = 0 /\ written = <<>>
  /\ pc = "idle"
  /\ expressions = <<>> /\ timeout = 0 /\ start = 0 /\ deadline = 0
  /\ ctxDone = FALSE
  /\ errs = <<>> /\ errsClosed = FALSE
  /\ output = <<>>
  /\ index = -1 /\ e = NoErr
  /\ snapshot = <<>>
  /\ retAt = -1
  /\ polledAfterErr = FALSE
  /\ readerPc = "none" /\ temp = <<>> /\ readErrAt = -1
  /\ readAt = -1 /\ errInTime = FALSE
  /\ iPc = "idle"
  /\ ictxDone = FALSE
  /\ signals = <<>>
  /\ wg = 0
  /\ listenPc = "none" /\ waitPc = "none"
  /\ copyPc = [d \in Directions |-> "none"]
  /\ waiterPc = "none" /\ done = FALSE
  /\ copying = [d \in Directions |-> 0]
  /\ sending = [d \in Directions |-> 0]
  /\ intDelivered = FALSE
  /\ errsConsumed = 0
  /\ lastSig = "none" /\ resize = "none"
  /\ iErr = Unset
  /\ kills = 0 /\ closeCalls = 0 /\ closeErr = Unset
  /\ reaped = FALSE
  /\ sendArg = <<>> /\ lastOp = "none" /\ wrote = <<>> /\ sendErr = Unset
  /\ second = FALSE
  /\ oldReaderPc = "none" /\ oldTemp = <<>>
  /\ oldDeadline = 0 /\ oldCtxDone = FALSE
  /\ firstMatched = FALSE /\ retWritten = 0 /\ lostAfter = FALSE
  /\ lockWriter = FALSE /\ lockReaders = 0

\* a session whose Start has returned nil: the child runs on its pty
Init ==
  /\ Fresh
  /\ cmdState = "running"
  /\ ptyHandle = "valid"
  /\ startErr = NoErr

\* a session on which Start has not been called: no process, s.pty is nil
NewInit ==
  /\ Fresh
  /\ cmdState = "unstarted"
  /\ ptyHandle = "nil"
  /\ startErr = Unset

(* ----------------------- Start, Send, SendLine ------------------------- *)
\* p, err := pty.Start(s.command); if err != nil { return err }; s.pty = p
Start(ok) ==
  /\ startErr = Unset
  /\ IF ok
     THEN /\ ptyHandle' = "valid"
          /\ cmdState' = "running"
          /\ startErr' = NoErr
     ELSE /\ startErr' = ErrSpawn
          /\ UNCHANGED <<ptyHandle, cmdState>>
  /\ UNCHANGED <<now, ptyVars, expectVars, readerVars, oldVars, lockVars,
                 sendArg, lastOp, wrote, sendErr, iPc, ictxDone, signals, wg,
                 listenPc, waitPc, copyPc, waiterPc, done, copying, sending,
                 intDelivered, errsConsumed, lastSig, resize, iErr, kills,
                 closeCalls, closeErr, reaped>>

\* s.pty.Write(b): a nil *os.File gives os.ErrInvalid; a write on a pty whose
\* child side is closed can fail after part of b
PtyWrite(b) ==
  IF ptyHandle = "nil"
  THEN wrote' = <<>> /\ sendErr' = ErrInvalid
  ELSE \E n \in 0..Len(b) :
         /\ n < Len(b) => ~slaveOpen
         /\ wrote' = SubSeq(b, 1, n)
         /\ sendErr' = IF n = Len(b) THEN NoErr ELSE EIO

\* _, err := s.pty.Write([]byte(value)); return err
Send(value) ==
  /\ lastOp' = "Send"
  /\ sendArg' = value
  /\ PtyWrite(value)
  /\ UNCHANGED <<now, ptyVars, expectVars, readerVars, interactVars, oldVars,
                 lockVars, startErr>>

\* mutant of SendLine: the line ends with a line feed only
SendLineLF(value) ==
  /\ lastOp' = "SendLine"
  /\ sendArg' = value
  /\ PtyWrite(value \o <<"\n">>)
  /\ UNCHANGED <<now, ptyVars, expectVars, readerVars, interactVars, oldVars,
                 lockVars, startErr>>

\* return s.Send(value + "\r\n")
SendLine(value) ==
  /\ lastOp' = "SendLine"
  /\ sendArg' = value
  /\ PtyWrite(value \o CRLF)
  /\ UNCHANGED <<now, ptyVars, expectVars, readerVars, interactVars, oldVars,
                 lockVars, startErr>>

(* ------------------------ clock and child ------------------------------ *)
\* time passes while a call is in progress or has returned
Tick ==
  /\ pc # "idle"
  /\ now < MaxTime
  /\ now' = now + 1
  /\ UNCHANGED <<sendVars, oldVars, lockVars, interactVars, ptyVars,
                 expectVars, readerVars>>

\* the child prints one byte on its terminal
ChildWrite ==
  /\ slaveOpen
  /\ Len(written) < MaxOut
  /\ \E c \in Bytes :
       /\ ptyAvail' = Append(ptyAvail, c)
       /\ written' = Append(written, c)
  /\ UNCHANGED <<sendVars, oldVars, lockVars, interactVars, now, slaveOpen,
                 reopens, expectVars, readerVars>>

\* the last descriptor of the slave side is closed (the child exits)
ChildClose ==
  /\ slaveOpen
  /\ slaveOpen' = FALSE
  /\ UNCHANGED <<sendVars, oldVars, lockVars, interactVars, now, ptyAvail,
                 reopens, written, expectVars, readerVars>>

\* a process opens the slave side again
ChildReopen ==
  /\ ~slaveOpen
  /\ reopens < MaxReopen
  /\ slaveOpen' = TRUE
  /\ reopens' = reopens + 1
  /\ UNCHANGED <<sendVars, oldVars, lockVars, interactVars, now, ptyAvail,
                 written, expectVars, readerVars>>

(* ------------------ ExpectExpressionsWithTimeout ----------------------- *)
\* lines 212-225: make the channel, the deadline context and the buffer, start
\* the reader.  A deadline that is not in the future gives a cancelled context.
ExpectCallWith(lists, timeouts) ==
  /\ pc = "idle"
  /\ \E exprs \in lists, t \in timeouts :
       /\ expressions' = exprs
       /\ timeout' = t
       /\ start' = now
       /\ deadline' = now + t
       /\ ctxDone' = (t = 0)
  /\ errs' = <<>> /\ errsClosed' = FALSE
  /\ output' = <<>>
  /\ index' = -1 /\ e' = NoErr
  /\ pc' = "select"
  /\ readerPc' = "select"
  /\ UNCHANGED <<sendVars, oldVars, lockVars, interactVars, now, ptyVars,
                 snapshot, retAt, polledAfterErr, temp, readErrAt, readAt,
                 errInTime>>

\* the caller's call, with any of the expression lists and timeouts
ExpectCall == ExpectCallWith(ExpressionLists, 0..MaxTimeout)

\* the runtime timer behind the deadline context fires, at or after the deadline
DeadlineFire ==
  /\ pc # "idle"
  /\ ~ctxDone
  /\ DeadlineReached
  /\ ctxDone' = TRUE
  /\ UNCHANGED <<sendVars, oldVars, lockVars, interactVars, now, ptyVars, pc,
                 expressions, timeout, start, deadline, errs, errsClosed,
                 output, index, e, snapshot, retAt, polledAfterErr,
                 readerVars>>

\* mutant of SelTimeout: the call waits for the reader (wg.Wait()) before it
\* returns
SelTimeoutWait ==
  /\ pc = "select"
  /\ ctxDone
  /\ readerPc = "returned"
  /\ e' = ErrTimeout
  /\ pc' = "done"
  /\ retAt' = now
  /\ UNCHANGED <<sendVars, oldVars, lockVars, interactVars, now, ptyVars,
                 expressions, timeout, start, deadline, ctxDone, errs,
                 errsClosed, output, index, snapshot, polledAfterErr,
                 readerVars>>

\* case <-ctx.Done(): e = ErrTimeout; break OUTER
SelTimeout ==
  /\ pc = "select"
  /\ ctxDone
  /\ e' = ErrTimeout
  /\ pc' = "done"
  /\ retAt' = now
  /\ UNCHANGED <<sendVars, oldVars, lockVars, interactVars, now, ptyVars,
                 expressions, timeout, start, deadline, ctxDone, errs,
                 errsClosed, output, index, snapshot, polledAfterErr,
                 readerVars>>

\* case err := <-errs: e = errors.Wrap(err, ...); break OUTER
SelErr ==
  /\ pc = "select"
  /\ errs # <<>>
  /\ e' = Wrap(Head(errs), "error reading from pty")
  /\ errs' = Tail(errs)
  /\ pc' = "done"
  /\ retAt' = now
  /\ UNCHANGED <<sendVars, oldVars, lockVars, interactVars, now, ptyVars,
                 expressions, timeout, start, deadline, ctxDone, errsClosed,
                 output, index, snapshot, polledAfterErr, readerVars>>

\* mutant of SelPoll: a plain break leaves only the range loop, the select
\* loop goes on with index set
SelPollNoBreak ==
  /\ pc = "select"
  /\ snapshot' = output
  /\ polledAfterErr' = (polledAfterErr \/ errs # <<>>)
  /\ LET i == FirstMatch(expressions, output) IN
       IF i >= 0
       THEN index' = i
       ELSE UNCHANGED index
  /\ UNCHANGED <<sendVars, oldVars, lockVars, interactVars, now, ptyVars, pc,
                 expressions, timeout, start, deadline, ctxDone, errs,
                 errsClosed, output, e, retAt, readerVars>>

\* case <-time.After(50 * time.Microsecond): snapshot under RLock, then test
\* the expressions in order.  The select chooses among the ready cases, and the
\* 50us timer may be ready together with the other two.
SelPoll ==
  /\ pc = "select"
  /\ snapshot' = output
  /\ polledAfterErr' = (polledAfterErr \/ errs # <<>>)
  /\ LET i == FirstMatch(expressions, output) IN
       IF i >= 0
       THEN /\ index' = i
            /\ pc' = "done"
            /\ retAt' = now
       ELSE UNCHANGED <<index, pc, retAt>>
  /\ UNCHANGED <<sendVars, oldVars, lockVars, interactVars, now, ptyVars,
                 expressions, timeout, start, deadline, ctxDone, errs,
                 errsClosed, output, e, readerVars>>

(* ----------------------------- readOutput ------------------------------ *)
\* case <-ctx.Done(): return
ReaderCtxDone ==
  /\ readerPc = "select"
  /\ ctxDone
  /\ readerPc' = "returned"
  /\ UNCHANGED <<sendVars, oldVars, lockVars, interactVars, now, ptyVars,
                 expectVars, temp, readErrAt, readAt, errInTime>>

\* default: var temp bytes.Buffer; io.Copy(&temp, s.pty) starts
ReaderBeginCopy ==
  /\ readerPc = "select"
  /\ ~ctxDone
  /\ temp' = <<>>
  /\ readerPc' = "copy"
  /\ UNCHANGED <<sendVars, oldVars, lockVars, interactVars, now, ptyVars,
                 expectVars, readErrAt, readAt, errInTime>>

\* io.Copy: one Read of the pty that returns data; io.Copy keeps reading
ReaderRead ==
  /\ readerPc = "copy"
  /\ ptyAvail # <<>>
  /\ temp' = temp \o ptyAvail
  /\ ptyAvail' = <<>>
  /\ readAt' = now
  /\ UNCHANGED <<sendVars, oldVars, lockVars, interactVars, now, slaveOpen,
                 reopens, written, expectVars, readerPc, readErrAt,
                 errInTime>>

\* io.Copy: Read reports end of stream, io.Copy returns (n, nil);
\* if n > 0 { lock.Lock(); buf.Write(temp.Bytes()); lock.Unlock() }
ReaderCopyEOF ==
  /\ readerPc = "copy"
  /\ ptyAvail = <<>>
  /\ ~slaveOpen
  /\ output' = IF Len(temp) > 0 THEN output \o temp ELSE output
  /\ readerPc' = "select"
  /\ UNCHANGED <<sendVars, oldVars, lockVars, interactVars, now, ptyVars, pc,
                 expressions, timeout, start, deadline, ctxDone, errs,
                 errsClosed, index, e, snapshot, retAt, polledAfterErr, temp,
                 readErrAt, readAt, errInTime>>

\* io.Copy: Read fails, io.Copy returns (n, err) with err != io.EOF;
\* errs <- err; close(errs); return   (temp is dropped)
ReaderCopyErr ==
  /\ readerPc = "copy"
  /\ ptyAvail = <<>>
  /\ ~slaveOpen
  /\ Len(errs) < ErrsCap
  /\ errs' = Append(errs, EIO)
  /\ errsClosed' = TRUE
  /\ readerPc' = "returned"
  /\ readErrAt' = now
  /\ errInTime' = (/\ pc = "select"
                   /\ ~ctxDone
                   /\ now < deadline
                   /\ FirstMatch(expressions, output) = -1)
  /\ UNCHANGED <<sendVars, oldVars, lockVars, interactVars, now, ptyVars, pc,
                 expressions, timeout, start, deadline, ctxDone, output,
                 index, e, snapshot, retAt, polledAfterErr, temp, readAt>>

\* io.Copy on a nil s.pty returns (0, os.ErrInvalid) at once;
\* errs <- err; close(errs); return
ReaderCopyInvalid ==
  /\ readerPc = "copy"
  /\ ptyHandle = "nil"
  /\ Len(errs) < ErrsCap
  /\ errs' = Append(errs, ErrInvalid)
  /\ errsClosed' = TRUE
  /\ readerPc' = "returned"
  /\ readErrAt' = now
  /\ errInTime' = (/\ pc = "select"
                   /\ ~ctxDone
                   /\ now < deadline
                   /\ FirstMatch(expressions, output) = -1)
  /\ UNCHANGED <<sendVars, oldVars, lockVars, interactVars, now, ptyVars, pc,
                 expressions, timeout, start, deadline, ctxDone, output, index,
                 e, snapshot, retAt, polledAfterErr, temp, readAt>>

(* ------------------- the steps around the rwLock ----------------------- *)
\* case <-time.After(50 * time.Microsecond): rwLock.RLock()
PollRLock ==
  /\ pc = "select"
  /\ ~lockWriter
  /\ lockReaders' = lockReaders + 1
  /\ polledAfterErr' = (polledAfterErr \/ errs # <<>>)
  /\ pc' = "rlocked"
  /\ UNCHANGED <<sendVars, oldVars, interactVars, now, ptyVars, expressions,
                 timeout, start, deadline, ctxDone, errs, errsClosed, output,
                 e, readerVars, index, snapshot,
                 retAt, lockWriter>>

\* b := output.Bytes()
PollBytes ==
  /\ pc = "rlocked"
  /\ snapshot' = output
  /\ pc' = "snapped"
  /\ UNCHANGED <<sendVars, oldVars, interactVars, now, ptyVars, expressions,
                 timeout, start, deadline, ctxDone, errs, errsClosed, output,
                 e, readerVars, index, retAt,
                 polledAfterErr, lockVars>>

\* rwLock.RUnlock()
PollRUnlock ==
  /\ pc = "snapped"
  /\ lockReaders' = lockReaders - 1
  /\ pc' = "test"
  /\ UNCHANGED <<sendVars, oldVars, interactVars, now, ptyVars, expressions,
                 timeout, start, deadline, ctxDone, errs, errsClosed, output,
                 e, readerVars, index, snapshot,
                 retAt, polledAfterErr, lockWriter>>

\* for i, r := range expressions { if r.Find(b) != nil { index = i; break OUTER } }
PollTest ==
  /\ pc = "test"
  /\ LET i == FirstMatch(expressions, snapshot) IN
       IF i >= 0
       THEN /\ index' = i
            /\ pc' = "done"
            /\ retAt' = now
       ELSE /\ pc' = "select"
            /\ UNCHANGED <<index, retAt>>
  /\ UNCHANGED <<sendVars, oldVars, interactVars, now, ptyVars, expressions,
                 timeout, start, deadline, ctxDone, errs, errsClosed, output,
                 e, readerVars, snapshot,
                 polledAfterErr, lockVars>>

\* io.Copy returns (n, nil) at end of stream; if n > 0 { ... }
ReaderCopyReturn ==
  /\ readerPc = "copy"
  /\ ptyAvail = <<>>
  /\ ~slaveOpen
  /\ readerPc' = IF Len(temp) > 0 THEN "lock" ELSE "select"
  /\ UNCHANGED <<sendVars, oldVars, lockVars, interactVars, now, ptyVars,
                 expectVars, temp, readErrAt, readAt, errInTime>>

\* mutant of ReaderLock: the reader goes on to write without the lock
ReaderLockSkipped ==
  /\ readerPc = "lock"
  /\ readerPc' = "write"
  /\ UNCHANGED <<sendVars, oldVars, lockVars, interactVars, now, ptyVars,
                 expectVars, temp, readErrAt, readAt, errInTime>>

\* lock.Lock(): waits until nobody holds the lock
ReaderLock ==
  /\ readerPc = "lock"
  /\ ~lockWriter
  /\ lockReaders = 0
  /\ lockWriter' = TRUE
  /\ readerPc' = "write"
  /\ UNCHANGED <<sendVars, oldVars, interactVars, now, ptyVars, expectVars,
                 temp, readErrAt, readAt, errInTime, lockReaders>>

\* _, _ = buf.Write(temp.Bytes())
ReaderWrite ==
  /\ readerPc = "write"
  /\ output' = output \o temp
  /\ readerPc' = "unlock"
  /\ UNCHANGED <<sendVars, oldVars, lockVars, interactVars, now, ptyVars, pc,
                 expressions, timeout, start, deadline, ctxDone, errs,
                 errsClosed, index, e, snapshot, retAt, polledAfterErr, temp,
                 readErrAt, readAt, errInTime>>

\* lock.Unlock(); back to the top of the loop
ReaderUnlock ==
  /\ readerPc = "unlock"
  /\ lockWriter' = FALSE
  /\ readerPc' = "select"
  /\ UNCHANGED <<sendVars, oldVars, interactVars, now, ptyVars, expectVars,
                 temp, readErrAt, readAt, errInTime, lockReaders>>

(* ------------- a second expect call and the first call's reader -------- *)
\* the caller, after the first expect call has returned, makes another one:
\* lines 212-225 again, with a new channel, context, buffer and reader.
\* Nothing stops the first call's reader: its context has no cancel
\* (ctx, _ := context.WithDeadline) and wg.Wait() is commented out.
SecondCall(lists, timeouts) ==
  /\ pc = "done"
  /\ ~second
  /\ second' = TRUE
  /\ oldReaderPc' = readerPc
  /\ oldTemp' = temp
  /\ oldDeadline' = deadline
  /\ oldCtxDone' = ctxDone
  /\ firstMatched' = (index >= 0 /\ retAt < deadline)
  /\ retWritten' = Len(written)
  /\ \E exprs \in lists, t \in timeouts :
       /\ expressions' = exprs
       /\ timeout' = t
       /\ start' = now
       /\ deadline' = now + t
       /\ ctxDone' = (t = 0)
  /\ errs' = <<>> /\ errsClosed' = FALSE
  /\ output' = <<>>
  /\ snapshot' = <<>>
  /\ index' = -1 /\ e' = NoErr
  /\ retAt' = -1
  /\ polledAfterErr' = FALSE
  /\ pc' = "select"
  /\ readerPc' = "select"
  /\ temp' = <<>>
  /\ readErrAt' = -1 /\ readAt' = -1 /\ errInTime' = FALSE
  /\ UNCHANGED <<sendVars, lockVars, interactVars, now, ptyVars, lostAfter>>

\* the timer behind the first call's context fires
OldDeadlineFire ==
  /\ second
  /\ ~oldCtxDone
  /\ now >= oldDeadline
  /\ oldCtxDone' = TRUE
  /\ UNCHANGED <<sendVars, lockVars, interactVars, now, ptyVars, expectVars,
                 readerVars, second, oldReaderPc, oldTemp, oldDeadline,
                 firstMatched, retWritten, lostAfter>>

\* the first call's reader: case <-ctx.Done(): return
OldReaderCtxDone ==
  /\ oldReaderPc = "select"
  /\ oldCtxDone
  /\ oldReaderPc' = "returned"
  /\ UNCHANGED <<sendVars, lockVars, interactVars, now, ptyVars, expectVars,
                 readerVars, second, oldTemp, oldDeadline, oldCtxDone,
                 firstMatched, retWritten, lostAfter>>

\* the first call's reader: default: io.Copy(&temp, s.pty) starts
OldReaderBeginCopy ==
  /\ oldReaderPc = "select"
  /\ ~oldCtxDone
  /\ oldTemp' = <<>>
  /\ oldReaderPc' = "copy"
  /\ UNCHANGED <<sendVars, lockVars, interactVars, now, ptyVars, expectVars,
                 readerVars, second, oldDeadline, oldCtxDone, firstMatched,
                 retWritten, lostAfter>>

\* the first call's reader: a Read of the pty returns data, which goes to the
\* first call's temp
OldReaderRead ==
  /\ oldReaderPc = "copy"
  /\ ptyAvail # <<>>
  /\ oldTemp' = oldTemp \o ptyAvail
  /\ ptyAvail' = <<>>
  /\ lostAfter' = (lostAfter \/ Len(written) > retWritten)
  /\ UNCHANGED <<sendVars, lockVars, interactVars, now, slaveOpen, reopens,
                 written, expectVars, readerVars, second, oldReaderPc,
                 oldDeadline, oldCtxDone, firstMatched, retWritten>>

\* the first call's reader: end of stream, temp goes to the first call's
\* buffer, which has no reader any more
OldReaderCopyEOF ==
  /\ oldReaderPc = "copy"
  /\ ptyAvail = <<>>
  /\ ~slaveOpen
  /\ oldReaderPc' = "select"
  /\ UNCHANGED <<sendVars, lockVars, interactVars, now, ptyVars, expectVars,
                 readerVars, second, oldTemp, oldDeadline, oldCtxDone,
                 firstMatched, retWritten, lostAfter>>

\* the first call's reader: a read error; the send on the first call's
\* channel (capacity 1, one sender) does not block; return
OldReaderCopyErr ==
  /\ oldReaderPc = "copy"
  /\ ptyAvail = <<>>
  /\ ~slaveOpen
  /\ oldReaderPc' = "returned"
  /\ UNCHANGED <<sendVars, lockVars, interactVars, now, ptyVars, expectVars,
                 readerVars, second, oldTemp, oldDeadline, oldCtxDone,
                 firstMatched, retWritten, lostAfter>>

(* ------------------------------ Interact ------------------------------- *)
\* lines 115-134: make the channels, subscribe to the signals, derive the
\* cancellable context and start the four tasks, wg.Add(1) before each.
InteractCall ==
  /\ iPc = "idle"
  /\ iPc' = "wait"
  /\ signals' = <<>>
  /\ ictxDone' = FALSE
  /\ wg' = 1 + 1 + 1 + 1
  /\ listenPc' = "run"
  /\ waitPc' = "run"
  /\ waiterPc' = "wait"
  /\ done' = FALSE
  /\ copyPc' = [d \in Directions |-> "run"]
  /\ UNCHANGED <<sendVars, oldVars, lockVars, sessVars, now, ptyVars,
                 expectVars, readerVars, copying, sending, cmdState,
                 intDelivered, errsConsumed>>

\* mutant of InteractReturn: wg.Wait() is left out (as it is commented out in
\* ExpectExpressionsWithTimeout)
InteractReturnNoWait ==
  /\ iPc = "wait"
  /\ iPc' = "returned"
  /\ iErr' = NoErr
  /\ UNCHANGED <<sendVars, oldVars, lockVars, lastSig, resize, ptyHandle,
                 kills, closeCalls, closeErr, reaped, now, ptyVars,
                 expectVars, readerVars, ictxDone, signals, wg, listenPc,
                 waitPc, copyPc, waiterPc, done, copying, sending, cmdState,
                 intDelivered, errsConsumed>>

\* mutant of InteractReturn: Interact closes the session on its way out
InteractReturnClose ==
  /\ iPc = "wait"
  /\ wg = 0
  /\ iPc' = "returned"
  /\ iErr' = NoErr
  /\ kills' = kills + 1
  /\ UNCHANGED <<sendVars, oldVars, lockVars, lastSig, resize, ptyHandle,
                 closeCalls, closeErr, reaped, now, ptyVars, expectVars,
                 readerVars, ictxDone, signals, wg, listenPc, waitPc, copyPc,
                 waiterPc, done, copying, sending, cmdState, intDelivered,
                 errsConsumed>>

\* mutant of InteractReturn: the error that stopped the relay is returned
InteractReturnErr ==
  /\ iPc = "wait"
  /\ wg = 0
  /\ iPc' = "returned"
  /\ iErr' = IF errsConsumed > 0 THEN EIO ELSE NoErr
  /\ UNCHANGED <<sendVars, oldVars, lockVars, lastSig, resize, ptyHandle,
                 kills, closeCalls, closeErr, reaped, now, ptyVars,
                 expectVars, readerVars, ictxDone, signals, wg, listenPc,
                 waitPc, copyPc, waiterPc, done, copying, sending, cmdState,
                 intDelivered, errsConsumed>>

\* wg.Wait() returns; Interact prints the log and returns nil
InteractReturn ==
  /\ iPc = "wait"
  /\ wg = 0
  /\ iPc' = "returned"
  /\ iErr' = NoErr
  /\ UNCHANGED <<sendVars, oldVars, lockVars, lastSig, resize, ptyHandle,
                 kills, closeCalls, closeErr, reaped, now, ptyVars,
                 expectVars, readerVars, ictxDone, signals, wg, listenPc,
                 waitPc, copyPc, waiterPc, done, copying, sending, cmdState,
                 intDelivered, errsConsumed>>

\* the os/signal package delivers a subscribed signal: a non-blocking send on
\* the channel, the signal is dropped when the channel is full
DeliverSignal(sig) ==
  /\ iPc # "idle"
  /\ signals' = IF Len(signals) < SignalsCap THEN Append(signals, sig)
                ELSE signals
  /\ intDelivered' = (intDelivered \/ (iPc = "wait" /\ sig \in Interrupts))
  /\ UNCHANGED <<sendVars, oldVars, lockVars, sessVars, now, ptyVars,
                 expectVars, readerVars, iPc, ictxDone, wg, listenPc, waitPc,
                 copyPc, waiterPc, done, copying, sending, cmdState,
                 errsConsumed>>

\* the child exits with status zero or non-zero; its side of the pty closes
\* unless a descendant of the child still holds the terminal open
ChildExit(status) ==
  /\ cmdState = "running"
  /\ cmdState' = status
  /\ \E held \in BOOLEAN : slaveOpen' = (slaveOpen /\ held)
  /\ UNCHANGED <<sendVars, oldVars, lockVars, sessVars, now, ptyAvail,
                 reopens, written, expectVars, readerVars, iPc, ictxDone,
                 signals, wg, listenPc, waitPc, copyPc, waiterPc, done,
                 copying, sending, intDelivered, errsConsumed>>

(* -------------------------------- Close ------------------------------ *)
\* return s.command.Process.Kill(): SIGKILL to the child; Kill fails once the
\* child has been waited for.  A killed child ends with a non-zero status.
\* Without a started process s.command.Process is nil and the call panics.
Close ==
  /\ closeCalls < MaxClose
  /\ closeCalls' = closeCalls + 1
  /\ kills' = IF cmdState = "unstarted" THEN kills ELSE kills + 1
  /\ closeErr' = IF cmdState = "unstarted" THEN NilDereference
                 ELSE IF reaped THEN ErrFinished ELSE NoErr
  /\ IF cmdState = "running"
     THEN /\ cmdState' = "exitErr"
          /\ \E held \in BOOLEAN : slaveOpen' = (slaveOpen /\ held)
     ELSE UNCHANGED <<cmdState, slaveOpen>>
  /\ UNCHANGED <<sendVars, oldVars, lockVars, lastSig, resize, iErr,
                 ptyHandle, reaped, now, ptyAvail, reopens, written,
                 expectVars, readerVars, iPc, ictxDone, signals, wg, listenPc,
                 waitPc, copyPc, waiterPc, done, copying, sending,
                 intDelivered, errsConsumed>>

(* -------------------------- listenForShutdown -------------------------- *)
\* mutant of ListenSignal: a failed resize shuts the relay down
ListenSignalFatalResize ==
  /\ listenPc = "run"
  /\ signals # <<>>
  /\ signals' = Tail(signals)
  /\ lastSig' = Head(signals)
  /\ IF Head(signals) = "SIGWINCH"
     THEN \E ok \in BOOLEAN :
            /\ ptyHandle = "nil" => ~ok
            /\ resize' = IF ok THEN "ok" ELSE "failed"
            /\ IF ok
               THEN UNCHANGED <<ictxDone, listenPc, wg>>
               ELSE /\ ictxDone' = TRUE
                    /\ listenPc' = "stopped"
                    /\ wg' = wg - 1
     ELSE /\ ictxDone' = TRUE
          /\ listenPc' = "stopped"
          /\ wg' = wg - 1
          /\ UNCHANGED resize
  /\ UNCHANGED <<sendVars, oldVars, lockVars, iErr, ptyHandle, kills,
                 closeCalls, closeErr, reaped, now, ptyVars, expectVars,
                 readerVars, iPc, waitPc, copyPc, waiterPc, done, copying,
                 sending, cmdState, intDelivered, errsConsumed>>

\* case sig := <-signals: SIGWINCH resizes the pty with pty.InheritSize, which
\* succeeds or fails (an error is only logged; it always fails on a nil
\* s.pty), and the loop goes on; the
\* other signals cancel() and return (wg.Done)
ListenSignal ==
  /\ listenPc = "run"
  /\ signals # <<>>
  /\ signals' = Tail(signals)
  /\ lastSig' = Head(signals)
  /\ IF Head(signals) = "SIGWINCH"
     THEN /\ \E ok \in BOOLEAN :
               /\ ptyHandle = "nil" => ~ok
               /\ resize' = IF ok THEN "ok" ELSE "failed"
          /\ UNCHANGED <<ictxDone, listenPc, wg>>
     ELSE /\ ictxDone' = TRUE
          /\ listenPc' = "stopped"
          /\ wg' = wg - 1
          /\ UNCHANGED resize
  /\ UNCHANGED <<sendVars, oldVars, lockVars, iErr, ptyHandle, kills,
                 closeCalls, closeErr, reaped, now, ptyVars, expectVars,
                 readerVars, iPc, waitPc, copyPc, waiterPc, done, copying,
                 sending, cmdState, intDelivered, errsConsumed>>

\* mutant of ListenErr: the return after cancel() is missing, the loop goes on
\* receiving
ListenErrNoReturn ==
  /\ listenPc = "run"
  /\ \/ /\ waiterPc = "send"
        /\ waiterPc' = "finished"
        /\ done' = TRUE
        /\ UNCHANGED sending
     \/ /\ \E d \in Directions :
             /\ sending[d] > 0
             /\ sending' = [sending EXCEPT ![d] = @ - 1]
        /\ UNCHANGED <<waiterPc, done>>
  /\ errsConsumed' = errsConsumed + 1
  /\ ictxDone' = TRUE
  /\ UNCHANGED <<sendVars, oldVars, lockVars, sessVars, now, ptyVars,
                 expectVars, readerVars, iPc, signals, wg, listenPc, waitPc,
                 copyPc, copying, cmdState, intDelivered>>

\* case e := <-errs: log, cancel(), return (wg.Done).  errs is unbuffered: the
\* receive pairs with one goroutine blocked in errs <- err, which then goes on
\* (the cmd.Wait goroutine closes done, an io.Copy goroutine ends).
ListenErr ==
  /\ listenPc = "run"
  /\ \/ /\ waiterPc = "send"
        /\ waiterPc' = "finished"
        /\ done' = TRUE
        /\ UNCHANGED sending
     \/ /\ \E d \in Directions :
             /\ sending[d] > 0
             /\ sending' = [sending EXCEPT ![d] = @ - 1]
        /\ UNCHANGED <<waiterPc, done>>
  /\ errsConsumed' = errsConsumed + 1
  /\ ictxDone' = TRUE
  /\ listenPc' = "stopped"
  /\ wg' = wg - 1
  /\ UNCHANGED <<sendVars, oldVars, lockVars, sessVars, now, ptyVars,
                 expectVars, readerVars, iPc, signals, waitPc, copyPc,
                 copying, cmdState, intDelivered>>

(* ---------------------- waitForCommandCompletion ----------------------- *)
\* err := cmd.Wait() returns once the child has exited, or at once when no
\* process was started; a non-zero status and "not started" are errors, to be
\* sent on errs; otherwise close(done)
WaiterExit ==
  /\ waiterPc = "wait"
  /\ cmdState # "running"
  /\ reaped' = (reaped \/ cmdState # "unstarted")
  /\ IF cmdState \in {"exitErr", "unstarted"}
     THEN /\ waiterPc' = "send"
          /\ UNCHANGED done
     ELSE /\ waiterPc' = "finished"
          /\ done' = TRUE
  /\ UNCHANGED <<sendVars, oldVars, lockVars, lastSig, resize, iErr,
                 ptyHandle, kills, closeCalls, closeErr, now, ptyVars,
                 expectVars, readerVars, iPc, ictxDone, signals, wg, listenPc,
                 waitPc, copyPc, copying, sending, cmdState, intDelivered,
                 errsConsumed>>

\* select { case <-ctx.Done(): return; case <-done: return }  (wg.Done)
WaitTaskStop ==
  /\ waitPc = "run"
  /\ (ictxDone \/ done)
  /\ waitPc' = "stopped"
  /\ wg' = wg - 1
  /\ UNCHANGED <<sendVars, oldVars, lockVars, sessVars, now, ptyVars,
                 expectVars, readerVars, iPc, ictxDone, signals, listenPc,
                 copyPc, waiterPc, done, copying, sending, cmdState,
                 intDelivered, errsConsumed>>

(* ------------------------------ copyFrom ------------------------------- *)
\* select { case <-ctx.Done(): return  (wg.Done)
CopyStop(d) ==
  /\ copyPc[d] = "run"
  /\ ictxDone
  /\ copyPc' = [copyPc EXCEPT ![d] = "stopped"]
  /\ wg' = wg - 1
  /\ UNCHANGED <<sendVars, oldVars, lockVars, sessVars, now, ptyVars,
                 expectVars, readerVars, iPc, ictxDone, signals, listenPc,
                 waitPc, waiterPc, done, copying, sending, cmdState,
                 intDelivered, errsConsumed>>

\* default: go func() { io.Copy(dst, src) ... }() and loop
CopySpawn(d) ==
  /\ copyPc[d] = "run"
  /\ ~ictxDone
  /\ copying[d] + sending[d] < MaxCopiers
  /\ copying' = [copying EXCEPT ![d] = @ + 1]
  /\ UNCHANGED <<sendVars, oldVars, lockVars, sessVars, now, ptyVars,
                 expectVars, readerVars, iPc, ictxDone, signals, wg, listenPc,
                 waitPc, copyPc, waiterPc, done, sending, cmdState,
                 intDelivered, errsConsumed>>

\* io.Copy returns nil: the source is at end of stream (the pty once the child
\* side is closed, os.Stdin whenever the operator ends it); the goroutine ends
CopierEOF(d) ==
  /\ copying[d] > 0
  /\ (d = "out" => ~slaveOpen)
  /\ copying' = [copying EXCEPT ![d] = @ - 1]
  /\ UNCHANGED <<sendVars, oldVars, lockVars, sessVars, now, ptyVars,
                 expectVars, readerVars, iPc, ictxDone, signals, wg, listenPc,
                 waitPc, copyPc, waiterPc, done, sending, cmdState,
                 intDelivered, errsConsumed>>

\* io.Copy returns an error (read or write on a pty whose child side is
\* closed): log it and block in errs <- err
CopierErr(d) ==
  /\ copying[d] > 0
  /\ ~slaveOpen
  /\ copying' = [copying EXCEPT ![d] = @ - 1]
  /\ sending' = [sending EXCEPT ![d] = @ + 1]
  /\ UNCHANGED <<sendVars, oldVars, lockVars, sessVars, now, ptyVars,
                 expectVars, readerVars, iPc, ictxDone, signals, wg, listenPc,
                 waitPc, copyPc, waiterPc, done, cmdState, intDelivered,
                 errsConsumed>>

\* io.Copy on a nil s.pty returns os.ErrInvalid at once, in both directions:
\* log it and block in errs <- err
CopierInvalid(d) ==
  /\ copying[d] > 0
  /\ ptyHandle = "nil"
  /\ copying' = [copying EXCEPT ![d] = @ - 1]
  /\ sending' = [sending EXCEPT ![d] = @ + 1]
  /\ UNCHANGED <<sendVars, oldVars, lockVars, sessVars, now, ptyVars,
                 expectVars, readerVars, iPc, ictxDone, signals, wg, listenPc,
                 waitPc, copyPc, waiterPc, done, cmdState, intDelivered,
                 errsConsumed>>

INext ==
  \/ InteractCall
  \/ InteractReturn
  \/ \E sig \in Signals : DeliverSignal(sig)
  \/ \E status \in {"exit0", "exitErr"} : ChildExit(status)
  \/ Close
  \/ ListenSignal
  \/ ListenErr
  \/ WaiterExit
  \/ WaitTaskStop
  \/ \E d \in Directions : CopyStop(d)
  \/ \E d \in Directions : CopySpawn(d)
  \/ \E d \in Directions : CopierEOF(d)
  \/ \E d \in Directions : CopierErr(d)

InteractSpec == Init /\ [][INext]_vars

\* every goroutine that can take a step is eventually scheduled, cmd.Wait
\* returns once the child has exited, and a read of a closed pty returns; the
\* operator, the signals and the child are under no obligation
InteractFair ==
  /\ InteractSpec
  /\ WF_vars(InteractReturn)
  /\ WF_vars(ListenSignal)
  /\ WF_vars(ListenErr)
  /\ WF_vars(WaiterExit)
  /\ WF_vars(WaitTaskStop)
  /\ \A d \in Directions : WF_vars(CopyStop(d))
  /\ \A d \in Directions : WF_vars(CopySpawn(d))
  /\ WF_vars(CopierEOF("out") \/ CopierErr("out"))

(* --------------------------- specification ----------------------------- *)
Next ==
  \/ Tick
  \/ ChildWrite
  \/ ChildClose
  \/ ChildReopen
  \/ ExpectCall
  \/ DeadlineFire
  \/ SelTimeout
  \/ SelErr
  \/ SelPoll
  \/ ReaderCtxDone
  \/ ReaderBeginCopy
  \/ ReaderRead
  \/ ReaderCopyEOF
  \/ ReaderCopyErr

Spec == Init /\ [][Next]_vars

\* the kinds of calls made so far: Send or SendLine, Close, an expect call,
\* Interact
KindsCalled ==
  (IF lastOp = "none" THEN 0 ELSE 1) + (IF closeCalls = 0 THEN 0 ELSE 1)
  + (IF pc = "idle" THEN 0 ELSE 1) + (IF iPc = "idle" THEN 0 ELSE 1)

\* a session whose Start fails, and the calls made on it afterwards, one
\* after another: the caller is free to make a call of a kind it has used,
\* or of a new kind while fewer than MaxKinds are in use
CallerFree(used) ==
  /\ startErr # Unset
  /\ pc # "select"
  /\ iPc # "wait"
  /\ used \/ KindsCalled < MaxKinds

FNext ==
  \/ Start(FALSE)
  \/ CallerFree(lastOp # "none") /\ \E value \in SendValues : Send(value)
  \/ CallerFree(lastOp # "none") /\ \E value \in SendValues : SendLine(value)
  \/ CallerFree(closeCalls > 0) /\ Close
  \/ CallerFree(FALSE) /\ ExpectCall
  \/ Tick
  \/ DeadlineFire
  \/ SelTimeout
  \/ SelErr
  \/ SelPoll
  \/ ReaderCtxDone
  \/ ReaderBeginCopy
  \/ ReaderCopyInvalid
  \/ CallerFree(FALSE) /\ InteractCall
  \/ InteractReturn
  \/ \E sig \in Signals : DeliverSignal(sig)
  \/ ListenSignal
  \/ ListenErr
  \/ WaiterExit
  \/ WaitTaskStop
  \/ \E d \in Directions : CopyStop(d)
  \/ \E d \in Directions : CopySpawn(d)
  \/ \E d \in Directions : CopierInvalid(d)

FailSpec == NewInit /\ [][FNext]_vars

\* a session from construction on: Start, then Send and SendLine while the
\* child side of the pty closes and reopens
SNext ==
  \/ \E ok \in BOOLEAN : Start(ok)
  \/ startErr # Unset /\ \E value \in SendValues : Send(value)
  \/ startErr # Unset /\ \E value \in SendValues : SendLine(value)
  \/ startErr = NoErr /\ ChildClose
  \/ startErr = NoErr /\ ChildReopen

SendSpec == NewInit /\ [][SNext]_vars

\* one expect call under fair scheduling: time passes, the deadline timer
\* fires, and a select with a ready ctx.Done() case eventually takes it; the
\* child and the reader task are under no obligation
FairLists == { <<>>, << <<"a">> >> }

ENext ==
  \/ Tick
  \/ ChildWrite
  \/ ChildClose
  \/ ChildReopen
  \/ ExpectCallWith(FairLists, {0, MaxTimeout})
  \/ DeadlineFire
  \/ SelTimeout
  \/ SelErr
  \/ SelPoll
  \/ ReaderCtxDone
  \/ ReaderBeginCopy
  \/ ReaderRead
  \/ ReaderCopyEOF
  \/ ReaderCopyErr

ExpectFair ==
  /\ Init
  /\ [][ENext]_vars
  /\ WF_vars(Tick)
  /\ WF_vars(DeadlineFire)
  /\ WF_vars(SelTimeout)

\* two expect calls one after the other, with the first call's reader
TwoLists == { << <<"a">> >>, << <<"b">> >> }

TNext ==
  \/ Tick
  \/ ChildWrite
  \/ ChildClose
  \/ ChildReopen
  \/ ExpectCallWith(TwoLists, {MaxTimeout})
  \/ DeadlineFire
  \/ SelTimeout
  \/ SelErr
  \/ SelPoll
  \/ ReaderCtxDone
  \/ ReaderBeginCopy
  \/ ReaderRead
  \/ ReaderCopyEOF
  \/ ReaderCopyErr
  \/ SecondCall(TwoLists, {MaxTimeout})
  \/ OldDeadlineFire
  \/ OldReaderCtxDone
  \/ OldReaderBeginCopy
  \/ OldReaderRead
  \/ OldReaderCopyEOF
  \/ OldReaderCopyErr

TwoCallSpec == Init /\ [][TNext]_vars

\* one expect call with every Lock, Write, Unlock, RLock, Bytes and RUnlock
\* as a step of its own
LockLists == { << <<"b">> >>, << <<"a">>, <<"b">> >> }

LNext ==
  \/ Tick
  \/ ChildWrite
  \/ ChildClose
  \/ ChildReopen
  \/ ExpectCallWith(LockLists, {MaxTimeout})
  \/ DeadlineFire
  \/ SelTimeout
  \/ SelErr
  \/ PollRLock
  \/ PollBytes
  \/ PollRUnlock
  \/ PollTest
  \/ ReaderCtxDone
  \/ ReaderBeginCopy
  \/ ReaderRead
  \/ ReaderCopyReturn
  \/ ReaderLock
  \/ ReaderWrite
  \/ ReaderUnlock
  \/ ReaderCopyErr

LockSpec == Init /\ [][LNext]_vars

(* ============================== claims ================================= *)
\* what the regular expressions say, independent of Find's nil quirk:
\* the lowest index of an expression matching b, -1 if there is none
LowestMatching(exprs, b) ==
  IF \E i \in 1..Len(exprs) : Matches(exprs[i], b)
  THEN (CHOOSE i \in 1..Len(exprs) :
          /\ Matches(exprs[i], b)
          /\ \A j \in 1..(i - 1) : ~Matches(exprs[j], b)) - 1
  ELSE -1

ReadError == Wrap(EIO, "error reading from pty")

\* the reader took every byte the child wrote off the pty before the deadline
ReadInTime == written # <<>> /\ ptyAvail = <<>> /\ readAt < deadline

\* C1: when the call has returned and k is the lowest index of an expression
\* matching the output the child produced (all of it read from the pty before
\* the deadline), the result is (k, nil).
C1_LowestEverMatchingWins ==
  (pc = "done" /\ ReadInTime /\ LowestMatching(expressions, written) >= 0)
    => (index = LowestMatching(expressions, written) /\ e = NoErr)

\* C2: a returned match index i >= 0 names an expression that matches the
\* snapshot of the returning poll tick, and no expression before it in the
\* list matches that snapshot.
C2_FirstMatchWins ==
  (pc = "done" /\ index >= 0)
    => /\ index < Len(expressions)
       /\ Matches(expressions[index + 1], snapshot)
       /\ \A j \in 1..index : ~Matches(expressions[j], snapshot)

\* C2 witness: both expressions match and the text of the second one comes
\* first in the snapshot; the call returned index 0.
C2_Witness ==
  /\ pc = "done"
  /\ expressions = << <<"a">>, <<"b">> >>
  /\ snapshot = <<"b", "a">>
  /\ index = 0

\* no expression of the call matches what the child has written
NoMatch == \A i \in 1..Len(expressions) : ~Matches(expressions[i], written)

\* C3 (as stated): with expressions that never match, every return is
\* (-1, ErrTimeout) and comes no earlier than timeout after the start.
C3_OnlyTimeout ==
  (pc = "done" /\ NoMatch)
    => (index = -1 /\ e = ErrTimeout /\ retAt - start >= timeout)

\* C3 (amended): with expressions that never match, every return is either
\* (-1, ErrTimeout), no earlier than timeout after the start, or (-1, wrapped
\* read error) after the reader hit a read error.
C3_TimeoutNotEarly ==
  (pc = "done" /\ NoMatch)
    => /\ index = -1
       /\ \/ e = ErrTimeout /\ retAt - start >= timeout
          \/ e = ReadError /\ readErrAt >= 0

\* C3 witness: a call with a non-empty list and a positive timeout timed out.
C3_Witness ==
  /\ pc = "done"
  /\ NoMatch
  /\ Len(expressions) > 0
  /\ timeout > 0
  /\ written # <<>>
  /\ e = ErrTimeout

\* C4: every return is exactly one of (i, nil) with 0 <= i < len(expressions),
\* (-1, ErrTimeout) and (-1, wrapped read error); the index is -1 iff the
\* error is non-nil.
C4_Outcomes ==
  pc = "done"
    => /\ \/ index \in 0..(Len(expressions) - 1) /\ e = NoErr
          \/ index = -1 /\ e = ErrTimeout
          \/ index = -1 /\ e = ReadError
       /\ (index = -1) <=> (e # NoErr)

\* C4 witness: a call returned a match after the deadline context had fired
\* (the match won the select against the timeout).
C4_Witness ==
  /\ pc = "done"
  /\ index = 1
  /\ e = NoErr
  /\ ctxDone

\* C5: the child wrote text matching the single expression, the reader read it
\* before the deadline, and the child stays alive without closing the pty:
\* Expect returns (true, nil).
C5_ScenarioA ==
  (/\ pc = "done"
   /\ Len(expressions) = 1
   /\ Matches(expressions[1], written)
   /\ ReadInTime
   /\ slaveOpen /\ reopens = 0)
    => (index = 0 /\ e = NoErr)

\* C6: a read error that the reader hits while the call is polling, before
\* the deadline and before any match, makes the call return (-1, wrapped read
\* error) without another poll tick.
C6_ReadErrorReturned ==
  (pc = "done" /\ errInTime)
    => (index = -1 /\ e = ReadError /\ ~polledAfterErr)

\* C7: an interrupt signal delivered during Interact leads to Interact
\* returning.
C7_InterruptStops == intDelivered ~> (iPc = "returned")

\* C8: the child exiting while Interact runs leads to Interact returning.
C8_ChildExitReturns ==
  (iPc = "wait" /\ cmdState # "running") ~> (iPc = "returned")

\* C9: in every state where Interact has returned, the four tasks (both
\* copyFrom loops, waitForCommandCompletion, listenForShutdown) have stopped.
C9_AllTasksStopped ==
  iPc = "returned"
    => /\ listenPc = "stopped"
       /\ waitPc = "stopped"
       /\ \A d \in Directions : copyPc[d] = "stopped"

\* C9 witness: Interact returned after an interrupt, while a goroutine started
\* by copyFrom is still inside io.Copy.
C9_Witness ==
  /\ iPc = "returned"
  /\ intDelivered
  /\ copying["out"] > 0

\* C10: an error received from the shared error channel cancels the context
\* and stops the signal loop; the context, once cancelled, stays cancelled;
\* at most one error is consumed per invocation.
C10_ErrorCancels ==
  /\ [](errsConsumed >= 1 => (ictxDone /\ listenPc = "stopped"))
  /\ [](errsConsumed <= 1)
  /\ [][ictxDone => ictxDone']_vars

\* C10 witness: one error was consumed and another worker is still blocked
\* sending its error.
C10_Witness ==
  /\ errsConsumed = 1
  /\ ictxDone
  /\ listenPc = "stopped"
  /\ (waiterPc = "send" \/ \E d \in Directions : sending[d] > 0)

\* the loop takes a window-change signal off the channel
WinchStep ==
  /\ listenPc = "run"
  /\ signals # <<>>
  /\ Head(signals) = "SIGWINCH"
  /\ signals' = Tail(signals)

\* after a window change the loop takes an interrupt off the channel
InterruptAfterWinch ==
  /\ lastSig = "SIGWINCH"
  /\ listenPc = "run"
  /\ signals # <<>>
  /\ Head(signals) \in Interrupts
  /\ signals' = Tail(signals)

\* after a window change the loop receives a worker's error
ErrorAfterWinch ==
  /\ lastSig = "SIGWINCH"
  /\ listenPc = "run"
  /\ errsConsumed' = errsConsumed + 1

\* C11: handling a window-change signal, with a resize that succeeds or fails,
\* neither cancels the context nor stops the signal loop, and the loop still
\* reacts afterwards: the next interrupt or worker error it receives cancels
\* the context and stops the loop.
C11_WinchNotFatal ==
  [][/\ WinchStep => (listenPc' = "run" /\ ictxDone' = ictxDone)
     /\ InterruptAfterWinch => (listenPc' = "stopped" /\ ictxDone')
     /\ ErrorAfterWinch => (listenPc' = "stopped" /\ ictxDone')]_vars

\* C11 witness: the last window-change resize failed, the loop is running,
\* the context is not cancelled and an interrupt waits in the channel.
C11_Witness ==
  /\ lastSig = "SIGWINCH"
  /\ resize = "failed"
  /\ listenPc = "run"
  /\ ~ictxDone
  /\ signals # <<>>
  /\ Head(signals) \in Interrupts

\* C12: when Interact has returned because of an interrupt signal, Kill was
\* invoked only by the caller's own Close calls and the pty handle is still
\* the one Start set.
C12_InterruptLeavesSession ==
  (iPc = "returned" /\ lastSig \in Interrupts)
    => (kills = closeCalls /\ ptyHandle = "valid")

\* C12 witness: Interact returned on an interrupt, the child is running and
\* nobody called Close.
C12_Witness ==
  /\ iPc = "returned"
  /\ lastSig \in Interrupts
  /\ cmdState = "running"
  /\ closeCalls = 0
  /\ kills = 0

\* C13: Interact returns nil on every path.
C13_InteractReturnsNil == iPc = "returned" => iErr = NoErr

\* C13 witness: Interact returned after listenForShutdown had received a
\* worker's error.
C13_Witness ==
  /\ iPc = "returned"
  /\ errsConsumed = 1
  /\ iErr = NoErr

\* C14: after Close has returned, the child is eventually reaped.
C14_CloseReaps == (closeCalls > 0) ~> reaped

\* C15: after a failed Start the pty handle is never valid and every call
\* that has returned reported a failure (a panic counted as one): Send and
\* SendLine, the expect calls, Close and Interact.
C15_FailedStartFailsAll ==
  startErr \notin {Unset, NoErr} =>
    /\ ptyHandle = "nil"
    /\ sendErr # NoErr
    /\ pc = "done" => (index = -1 /\ e # NoErr)
    /\ closeErr # NoErr
    /\ iPc = "returned" => iErr # NoErr

\* C16: at most one task is inside a read of the pty: the reader of the call
\* in progress and the reader of the earlier call are never both in io.Copy.
C16_OneConsumer == ~(readerPc = "copy" /\ oldReaderPc = "copy")

\* a step in which SendLine returns
SendLineStep ==
  /\ lastOp' = "SendLine"
  /\ <<sendArg, lastOp, wrote, sendErr>>' # <<sendArg, lastOp, wrote, sendErr>>

\* C17: whenever SendLine(s) returns, the bytes it wrote and the error it
\* returned are bytes and error of the pty write of s followed by "\r\n",
\* which is what Send(s + "\r\n") does in the same state.
C17_SendLineIsSendCRLF ==
  [][SendLineStep => PtyWrite(sendArg' \o <<"\r", "\n">>)]_vars

\* C17 witness: SendLine of a non-empty string wrote all of it and the line
\* end, and returned nil.
C17_Witness ==
  /\ lastOp = "SendLine"
  /\ Len(sendArg) > 0
  /\ wrote = sendArg \o <<"\r", "\n">>
  /\ sendErr = NoErr

\* a is a prefix of b
IsPrefix(a, b) == Len(a) <= Len(b) /\ SubSeq(b, 1, Len(a)) = a

\* C18: the buffer only grows, and only in a step of the reader taken while
\* the lock is held exclusively; the matcher takes b := output.Bytes() only
\* while it holds the shared lock; the reader between Lock and Unlock and the
\* matcher between RLock and RUnlock never coexist; and the snapshot the
\* matcher has taken or is testing is a prefix of the buffer.
C18_BufferLocked ==
  /\ [](/\ ~(readerPc \in {"write", "unlock"} /\ pc \in {"rlocked", "snapped"})
        /\ ~(lockWriter /\ lockReaders > 0)
        /\ pc \in {"snapped", "test"} => IsPrefix(snapshot, output))
  /\ [][/\ IsPrefix(output, output')
        /\ output' # output => (lockWriter /\ readerPc = "write")
        /\ (pc = "rlocked" /\ pc' = "snapped") => (lockReaders > 0 /\ ~lockWriter)
        /\ IsPrefix(snapshot, output')]_vars

\* C18 witness: the matcher is testing a non-empty snapshot and the reader
\* has appended to the buffer since the snapshot was taken.
C18_Witness ==
  /\ pc = "test"
  /\ snapshot # <<>>
  /\ Len(output) > Len(snapshot)

\* C19: every expect call in progress eventually returns.
C19_CallReturns == (pc = "select") ~> (pc = "done")

\* C19 witness: a call with an empty expression list has returned ErrTimeout
\* while its reader is still inside io.Copy.
C19_Witness ==
  /\ pc = "done"
  /\ e = ErrTimeout
  /\ expressions = <<>>
  /\ readerPc = "copy"

\* C20: when the first call returned a match before its deadline, no byte the
\* child wrote after the second call began is taken by the first call's
\* reader.
C20_NoOutputLost == (second /\ firstMatched) => ~lostAfter

TypeOK ==
  /\ now \in 0..MaxTime
  /\ pc \in {"idle", "select", "rlocked", "snapped", "test", "done"}
  /\ readerPc \in {"none", "select", "copy", "lock", "write", "unlock",
                   "returned"}
  /\ oldReaderPc \in {"none", "select", "copy", "returned"}
  /\ lockWriter \in BOOLEAN
  /\ lockReaders \in 0..1
  /\ cmdState \in {"unstarted", "running", "exit0", "exitErr"}
  /\ ptyHandle \in {"nil", "valid"}
  /\ startErr \in {Unset, NoErr, ErrSpawn}
  /\ sendErr \in {Unset, NoErr, EIO, ErrInvalid}
  /\ closeErr \in {Unset, NoErr, ErrFinished, NilDereference}
  /\ iErr \in {Unset, NoErr}
  /\ lastOp \in {"none", "Send", "SendLine"}
  /\ sendArg \in SendValues
  /\ Len(wrote) <= MaxSend + 2
  /\ kills \in 0..MaxClose
  /\ closeCalls \in 0..MaxClose
  /\ index \in -1..2
  /\ Len(errs) <= ErrsCap
  /\ iPc \in {"idle", "wait", "returned"}
  /\ wg \in 0..4
  /\ Len(signals) <= SignalsCap
====
